---------------------------- MODULE Spec2Model ----------------------------
(***************************************************************************)
(* A model of maya-tweener: the `tweener` command (src/tweener.py) with    *)
(* the host's undo queue, the selection resolvers and the Bezier segment   *)
(* builder (src/mods/utils.py).                                            *)
(*                                                                         *)
(* The module mods/tween.py (prepare, interpolate, the module-level        *)
(* anim_cache) and the host's MAnimCurveChange are not part of the         *)
(* sources at hand; they are modelled from the design document (sections   *)
(* 4.4 and 4.5) and marked as such where they are defined.                 *)
(***************************************************************************)
EXTENDS Integers, Sequences, FiniteSets, TLC

VARIABLES
    \* ---- the command, the tween module and the host's undo queue ----
    keyValue,          \* scene: curve name -> sequence of key values
    tween_anim_cache,  \* tween.anim_cache: the module-level current cache
    tween_targets,     \* tween's per-curve targets resolved by prepare
    caches,            \* every MAnimCurveChange created so far, by identity
    undoStack,         \* host undo queue: command instances, oldest first
    redoStack,         \* host redo queue
    gesture,           \* the UI gesture: "none", "open", "ended"
    nCmds,             \* number of command invocations so far
    lastOp,            \* the operation that led to this state
    prevFailedPress,   \* whether the operation before it was a failed press
    pressVals,         \* history: keyValue at the most recent press
    sessionWrites,     \* history: keys written since the most recent press
    \* ---- get_curve_tangents_bezier_points ----
    bz,
    \* ---- the selection resolvers ----
    sl

vars == << keyValue, tween_anim_cache, tween_targets, caches, undoStack,
           redoStack, gesture, nCmds, lastOp, prevFailedPress, pressVals,
           sessionWrites, bz, sl >>

sessionVars == << keyValue, tween_anim_cache, tween_targets, caches,
                  undoStack, redoStack, gesture, nCmds, lastOp,
                  prevFailedPress, pressVals, sessionWrites >>

-----------------------------------------------------------------------------
(* Bounds of the model *)

MaxCmds == 3        \* command invocations in one behaviour
MaxFactor == 2      \* interpolant values 0 .. MaxFactor

-----------------------------------------------------------------------------
(* mods/utils.py: curve kinds and the resolver of directly selected curves *)

\* TweenerCmd.anim_cache = None; cache identities are 1, 2, ...
None == 0

ANIM_CURVE_TYPES ==
    { "kAnimCurveTimeToAngular", "kAnimCurveTimeToDistance",
      "kAnimCurveTimeToUnitless", "kAnimCurveTimeToTime" }

\* the set-driven-key kinds (UL, UA, UU, UT), which share kAnimCurve
DrivenKeyTypes ==
    { "kAnimCurveUnitlessToAngular", "kAnimCurveUnitlessToDistance",
      "kAnimCurveUnitlessToUnitless", "kAnimCurveUnitlessToTime" }

\* MObject.hasFn(MFn.kAnimCurve)
hasFn_kAnimCurve(obj) == obj.apiType \in ANIM_CURVE_TYPES \cup DrivenKeyTypes

\* MItSelectionList(sl_list, MFn.kAnimCurve): the items of that function set
MItSelectionList_kAnimCurve(sl_list) ==
    SelectSeq(sl_list, LAMBDA item : hasFn_kAnimCurve(item.node))

\* a mutation: the type test also lets the driven-key kinds through
curve_type_accepted_any(curve_type) ==
    curve_type \in ANIM_CURVE_TYPES \cup DrivenKeyTypes

\* `if curve_type in ANIM_CURVE_TYPES`
curve_type_accepted(curve_type) == curve_type \in ANIM_CURVE_TYPES

RECURSIVE selected_loop(_, _)
selected_loop(it, curve_dict) ==
    IF it = << >> THEN curve_dict
    ELSE LET item == Head(it)
             obj  == item.node
             take == /\ item.itemType \in { "kDagSelectionItem",
                                            "kAnimSelectionItem",
                                            "kDNselectionItem" }
                     /\ curve_type_accepted(obj.apiType)
             d2   == IF take
                     THEN [n \in DOMAIN curve_dict \cup {obj.name} |->
                              IF n = obj.name THEN obj ELSE curve_dict[n]]
                     ELSE curve_dict
         IN  selected_loop(Tail(it), d2)

\* get_selected_anim_curves(): curve_dict.values()
get_selected_anim_curves(sl_list) ==
    LET curve_dict == selected_loop(MItSelectionList_kAnimCurve(sl_list),
                                    [n \in {} |-> {}])
    IN  { curve_dict[n] : n \in DOMAIN curve_dict }

\* get_anim_curve_default_value(anim_curve): << >> stands for None
get_anim_curve_default_value(anim_curve) ==
    IF anim_curve.output = << >> THEN << >>
    ELSE LET attr_obj == anim_curve.output[1]
             api == attr_obj.apiType
         IN  IF api = "kNumericAttribute" THEN << attr_obj.default >>
             ELSE IF api \in {"kDoubleLinearAttribute", "kFloatLinearAttribute"}
                  THEN << attr_obj.default >>
             ELSE IF api \in {"kDoubleAngleAttribute", "kFloatAngleAttribute"}
                  THEN << attr_obj.default >>
             ELSE << >>

-----------------------------------------------------------------------------
(* mods/utils.py: get_channelbox_attributes, get_anim_curves_from_objects *)

SeqToSet(q) == { q[i] : i \in DOMAIN q }

\* get_channelbox_attributes(): the union of the four queries; a query that
\* selected nothing (None or an empty list, << >> here) adds nothing, and an
\* empty union gives None, which the caller tests by truth value ({} here)
get_channelbox_attributes(cb) ==
    (IF cb.s1 # << >> THEN SeqToSet(cb.s1) ELSE {})
    \cup (IF cb.s2 # << >> THEN SeqToSet(cb.s2) ELSE {})
    \cup (IF cb.s3 # << >> THEN SeqToSet(cb.s3) ELSE {})
    \cup (IF cb.s4 # << >> THEN SeqToSet(cb.s4) ELSE {})

\* `if channelbox_attr:` ... `if attr_name not in channelbox_attr: continue`
attr_filtered_out(channelbox_attr, attr) ==
    channelbox_attr # {} /\ attr.shortName \notin channelbox_attr

\* the body of the loop over one node's attributes, from attribute `index`
RECURSIVE attr_loop(_, _, _, _)
attr_loop(node, index, channelbox_attr, curve_list) ==
    IF index > Len(node.attrs) THEN curve_list
    ELSE LET attr == node.attrs[index]
             connections == attr.connections
             next ==
                 IF connections # << >>
                 THEN LET conn_node == connections[1]
                      IN  IF hasFn_kAnimCurve(conn_node)
                          THEN IF attr_filtered_out(channelbox_attr, attr)
                               THEN curve_list
                               ELSE IF curve_type_accepted(conn_node.apiType)
                                    THEN Append(curve_list, conn_node)
                                    ELSE curve_list
                          ELSE curve_list
                 ELSE curve_list
         IN  attr_loop(node, index + 1, channelbox_attr, next)

RECURSIVE node_loop(_, _, _)
node_loop(nodes, channelbox_attr, curve_list) ==
    IF nodes = << >> THEN curve_list
    ELSE node_loop(Tail(nodes), channelbox_attr,
                   attr_loop(Head(nodes), 1, channelbox_attr, curve_list))

\* get_anim_curves_from_objects(nodes), reading the channel box cb
get_anim_curves_from_objects(nodes, cb) ==
    node_loop(nodes, get_channelbox_attributes(cb), << >>)

-----------------------------------------------------------------------------
(* mods/utils.py: get_curve_tangents_bezier_points *)

\* numbers are exact fractions << numerator, denominator >>, denominator > 0
RECURSIVE Gcd(_, _)
Gcd(a, b) == IF b = 0 THEN a ELSE Gcd(b, a % b)

Abs(a) == IF a < 0 THEN -a ELSE a

Frac(n, d) ==
    LET g == Gcd(Abs(n), Abs(d))
        sgn == IF d < 0 THEN -1 ELSE 1
    IN  << sgn * (n \div g), sgn * (d \div g) >>

FracAdd(a, b) == Frac(a[1] * b[2] + b[1] * a[2], a[2] * b[2])
FracSub(a, b) == Frac(a[1] * b[2] - b[1] * a[2], a[2] * b[2])
FracDivInt(a, k) == Frac(a[1], a[2] * k)
FracOfInt(n) == << n, 1 >>

\* MTime.asUnits(MTime.kSeconds): a time in frames of `unit` to seconds
PerSecond(unit) ==
    CASE unit = "kFilm" -> 24
      [] unit = "kNTSCFrame" -> 30
      [] OTHER -> 1

asUnits_kSeconds(time) == Frac(time.value, PerSecond(time.unit))

ValidIndex(curve_fn, index) == index >= 0 /\ index < Len(curve_fn.keys)

\* the key of a 0-based index
KeyAt(curve_fn, index) == curve_fn.keys[index + 1]

\* MFnAnimCurve.getTangentXY(index, isInTangent)
getTangentXY(curve_fn, index, isInTangent) ==
    IF isInTangent THEN KeyAt(curve_fn, index).tangentIn
    ELSE KeyAt(curve_fn, index).tangentOut

Point(x, y) == [x |-> x, y |-> y]

\* a mutation: the start key's handle is read as an in-tangent too
start_tangent_in(curve_fn, start_index) ==
    getTangentXY(curve_fn, start_index, TRUE)

\* `curve_fn.getTangentXY(start_index, False)`
start_tangent(curve_fn, start_index) ==
    getTangentXY(curve_fn, start_index, FALSE)

\* `curve_fn.getTangentXY(end_index, True)`
end_tangent(curve_fn, end_index) ==
    getTangentXY(curve_fn, end_index, TRUE)

\* a mutation: the function refuses a pair that is not in ascending order
accessor_calls_succeed_ordered(curve_fn, start_index, end_index) ==
    /\ ValidIndex(curve_fn, start_index)
    /\ ValidIndex(curve_fn, end_index)
    /\ start_index < end_index

\* the function reads both keys through the curve accessor and tests
\* nothing itself: the reads fail exactly when an index is no key's
accessor_calls_succeed(curve_fn, start_index, end_index) ==
    /\ ValidIndex(curve_fn, start_index)
    /\ ValidIndex(curve_fn, end_index)

get_curve_tangents_bezier_points(curve_fn, start_index, end_index) ==
    IF ~accessor_calls_succeed(curve_fn, start_index, end_index)
    THEN [ok |-> FALSE, error |-> "accessor error"]
    ELSE LET p1 == Point(asUnits_kSeconds(KeyAt(curve_fn, start_index).time),
                         FracOfInt(KeyAt(curve_fn, start_index).value))
             p4 == Point(asUnits_kSeconds(KeyAt(curve_fn, end_index).time),
                         FracOfInt(KeyAt(curve_fn, end_index).value))
             t2 == start_tangent(curve_fn, start_index)
             p2 == Point(FracAdd(p1.x, FracDivInt(FracOfInt(t2[1]), 3)),
                         FracAdd(p1.y, FracDivInt(FracOfInt(t2[2]), 3)))
             t3 == end_tangent(curve_fn, end_index)
             p3 == Point(FracSub(p4.x, FracDivInt(FracOfInt(t3[1]), 3)),
                         FracSub(p4.y, FracDivInt(FracOfInt(t3[2]), 3)))
         IN  [ok |-> TRUE, p1 |-> p1, p2 |-> p2, p3 |-> p3, p4 |-> p4]

-----------------------------------------------------------------------------
(* The scene of the command model *)

Attr(api, default) == [apiType |-> api, default |-> default]

CurveNode(name, api, output) ==
    [name |-> name, apiType |-> api, output |-> output]

\* cA: three keys, the middle one is edited (both neighbours present)
\* cB: one key (first and last of its curve), blends toward the default
\* cD: a set-driven-key curve
SceneCurves ==
    { CurveNode("cA", "kAnimCurveTimeToDistance",
                << Attr("kDoubleLinearAttribute", 0) >>),
      CurveNode("cB", "kAnimCurveTimeToAngular",
                << Attr("kDoubleAngleAttribute", 1) >>),
      CurveNode("cD", "kAnimCurveUnitlessToDistance",
                << Attr("kDoubleLinearAttribute", 0) >>) }

CurveNames == { c.name : c \in SceneCurves }

InitKeyValue ==
    [c \in CurveNames |->
        CASE c = "cA" -> << 0, 3, 8 >>
          [] c = "cB" -> << 5 >>
          [] OTHER    -> << 2, 4 >>]

\* the key under edit: the caller-supplied index (1-based here)
EditedKey(c) == IF c = "cA" THEN 2 ELSE 1

SelItem(c) == [itemType |-> "kAnimSelectionItem", node |-> c]

SelItems == { SelItem(c) : c \in SceneCurves }

\* the active selection lists a press may find: nothing, one curve, two
\* curves in either order or the same curve twice, and all three curves
Selections ==
    UNION { [1..n -> SelItems] : n \in 0..2 }
    \cup { [i \in 1..3 |-> SelItem(CHOOSE c \in SceneCurves :
                                c.name = << "cA", "cB", "cD" >>[i])] }

Factors == 0..MaxFactor


-----------------------------------------------------------------------------
(* The change cache (MAnimCurveChange) and mods/tween.py, from the design   *)
(* document: sections 4.4 (press, drag) and 4.5 (record, undo, redo)        *)

Entry(curve, index, orig) ==
    [curve |-> curve, index |-> index, orig |-> orig, last |-> orig]

HasEntry(cache, curve, index) ==
    \E i \in DOMAIN cache : cache[i].curve = curve /\ cache[i].index = index

\* record(curve, keyIndex, originalValue): once per (curve, keyIndex)
record(cache, curve, index, value) ==
    IF HasEntry(cache, curve, index) THEN cache
    ELSE Append(cache, Entry(curve, index, value))

\* a value write through the cache: the entry keeps the last value written
setValue_change(cache, curve, index, value) ==
    [i \in DOMAIN cache |->
        IF cache[i].curve = curve /\ cache[i].index = index
        THEN [cache[i] EXCEPT !.last = value]
        ELSE cache[i]]

RECURSIVE MAnimCurveChange_undoIt(_, _)
\* undo(): every recorded key back to its original value, newest first
MAnimCurveChange_undoIt(cache, keys) ==
    IF cache = << >> THEN keys
    ELSE LET e == cache[Len(cache)]
         IN  MAnimCurveChange_undoIt(
                 SubSeq(cache, 1, Len(cache) - 1),
                 [keys EXCEPT ![e.curve][e.index] = e.orig])

RECURSIVE MAnimCurveChange_redoIt(_, _)
\* redo(): every recorded key to the last value the session gave it
MAnimCurveChange_redoIt(cache, keys) ==
    IF cache = << >> THEN keys
    ELSE LET e == Head(cache)
         IN  MAnimCurveChange_redoIt(
                 Tail(cache),
                 [keys EXCEPT ![e.curve][e.index] = e.last])

\* the interpolation shape: Linear, and the fallback of every other name
shape(t) == t

\* the value component of the cubic Bezier through the two neighbour keys,
\* as a polynomial in t (valid outside 0..1); handles collapsed on p1, p4
BezierValue(p1, p4, t) ==
    LET u == 1 - t
    IN  u*u*u*p1 + 3*u*u*t*p1 + 3*u*t*t*p4 + t*t*t*p4

\* the target of one curve, resolved at press
HasTarget(curve, keys) ==
    LET n == Len(keys[curve.name])
        e == EditedKey(curve.name)
    IN  /\ n > 0
        /\ e \in 1..n
        /\ \/ (e > 1 /\ e < n)
           \/ get_anim_curve_default_value(curve) # << >>

Target(curve, keys) ==
    LET n == Len(keys[curve.name])
        e == EditedKey(curve.name)
        neighbours == e > 1 /\ e < n
    IN  [curve |-> curve.name, index |-> e,
         kind |-> IF neighbours THEN "neighbours" ELSE "default",
         prev |-> IF neighbours THEN e - 1 ELSE 0,
         next |-> IF neighbours THEN e + 1 ELSE 0,
         fallback |-> IF neighbours THEN 0
                      ELSE get_anim_curve_default_value(curve)[1],
         orig |-> keys[curve.name][e]]

\* prepare: the targets of the curves the selection resolves to
prepare_targets(sl_list, keys) ==
    { Target(c, keys) : c \in { c \in get_selected_anim_curves(sl_list) :
                                   HasTarget(c, keys) } }

RECURSIVE record_all(_, _, _)
record_all(cache, targets, keys) ==
    IF targets = {} THEN cache
    ELSE LET tg == CHOOSE x \in targets : TRUE
         IN  record_all(record(cache, tg.curve, tg.index,
                               keys[tg.curve][tg.index]),
                        targets \ {tg}, keys)

\* prepare: the snapshot of every affected key, before anything is written
prepare_cache(cache, targets, keys) == record_all(cache, targets, keys)

prepare_result(targets) == IF targets = {} THEN "NoTweenableKeys" ELSE "ok"

\* drag: the blended value of one target for factor t
NewValue(tg, keys, t) ==
    IF tg.kind = "neighbours"
    THEN BezierValue(keys[tg.curve][tg.prev], keys[tg.curve][tg.next], shape(t))
    ELSE tg.orig + shape(t) * (tg.fallback - tg.orig)

\* interpolate: the scene after every target's key is written
interpolate_keys(targets, keys, t) ==
    [c \in DOMAIN keys |->
        IF \E tg \in targets : tg.curve = c
        THEN LET tg == CHOOSE x \in targets : x.curve = c
             IN  [keys[c] EXCEPT ![tg.index] = NewValue(tg, keys, t)]
        ELSE keys[c]]

RECURSIVE write_all(_, _, _, _)
write_all(cache, targets, keys, t) ==
    IF targets = {} THEN cache
    ELSE LET tg == CHOOSE x \in targets : TRUE
         IN  write_all(setValue_change(cache, tg.curve, tg.index,
                                       NewValue(tg, keys, t)),
                       targets \ {tg}, keys, t)

\* interpolate: the cache after the writes (record is a no-op on a key
\* already recorded)
interpolate_cache(cache, targets, keys, t) ==
    write_all(record_all(cache, targets, keys), targets, keys, t)

-----------------------------------------------------------------------------
(* src/tweener.py: TweenerCmd *)

\* the flags of one invocation: -t <double>, -p <boolean>, -tp <string>
ArgLists ==
    { a \in [hasT : BOOLEAN, t : Factors, hasP : BOOLEAN, p : {0, 1},
             hasTp : BOOLEAN] :
        /\ (~a.hasT => a.t = 0)
        /\ (~a.hasP => a.p = 0) }

\* pass_args: the class defaults (blend_arg = 0, press_arg = False) stay
\* unless the flag is set; returns numberOfFlagsUsed
pass_args(args) ==
    [blend_arg |-> IF args.hasT THEN args.t ELSE 0,
     press_arg |-> IF args.hasP THEN args.p # 0 ELSE FALSE,
     numberOfFlagsUsed |-> (IF args.hasT THEN 1 ELSE 0)
                           + (IF args.hasP THEN 1 ELSE 0)
                           + (IF args.hasTp THEN 1 ELSE 0)]

\* a mutation: only flag-less invocations return early, every other one
\* takes the press branch
takes_press_branch_always(press_arg) == TRUE

\* `if self.press_arg:`
takes_press_branch(press_arg) == press_arg

\* a mutation: the press keeps a cache that is already installed
press_cache_reused == IF tween_anim_cache # None THEN tween_anim_cache
                      ELSE Len(caches) + 1

\* `self.anim_cache = oma.MAnimCurveChange()`: a new cache, by identity
press_cache == Len(caches) + 1

\* a mutation: the module-level reference is not updated
module_cache_kept(cmd_cache) == tween_anim_cache

\* `tween.anim_cache = self.anim_cache`
module_cache_after_press(cmd_cache) == cmd_cache

\* a mutation: the drag makes a cache of its own
drag_cache_fresh == Len(caches) + 1

\* `self.anim_cache = tween.anim_cache`
drag_cache == tween_anim_cache

\* a mutation: only an invocation that pressed is undoable
isUndoable_press_only(cmd) == cmd.press_arg

\* isUndoable: True for every instance
isUndoable(cmd) == TRUE

\* the host after doIt: an undoable command instance joins the undo queue
\* and the redo queue is flushed
HostRegister(cmd) ==
    IF isUndoable(cmd)
    THEN /\ undoStack' = Append(undoStack, [anim_cache |-> cmd.anim_cache])
         /\ redoStack' = << >>
    ELSE UNCHANGED << undoStack, redoStack >>

\* every cache that exists after a command that holds cache c
CachesWith(c) == IF c > Len(caches) THEN Append(caches, << >>) ELSE caches

\* what the invocation asked for, by its flags alone
Asked(pa) ==
    IF pa.numberOfFlagsUsed = 0 THEN "show"
    ELSE IF pa.press_arg THEN "press" ELSE "drag"

Op(pa, cache, ncurves, result) ==
    [name |-> Asked(pa), cache |-> cache, ncurves |-> ncurves,
     result |-> result]

FailedPress(op) == op.name = "press" /\ op.result = "NoTweenableKeys"

\* doIt with no flag: show the window and return
DoItShow(args) ==
    LET pa == pass_args(args)
        cmd == [anim_cache |-> None, press_arg |-> pa.press_arg]
    IN  /\ nCmds < MaxCmds
        /\ pa.numberOfFlagsUsed = 0
        /\ HostRegister(cmd)
        /\ nCmds' = nCmds + 1
        /\ lastOp' = Op(pa, None, 0, "ok")
        /\ prevFailedPress' = FailedPress(lastOp)
        /\ UNCHANGED << keyValue, tween_anim_cache, tween_targets, caches,
                        gesture, pressVals, sessionWrites >>

\* doIt, press branch: a new cache, installed at module level, then prepare
DoItPress(args, sl_list) ==
    LET pa == pass_args(args)
        c == press_cache
        cmd == [anim_cache |-> c, press_arg |-> pa.press_arg]
        installed == module_cache_after_press(c)
        cs == CachesWith(c)
        targets == prepare_targets(sl_list, keyValue)
    IN  /\ nCmds < MaxCmds
        /\ pa.numberOfFlagsUsed # 0
        /\ takes_press_branch(pa.press_arg)
        /\ tween_anim_cache' = installed
        /\ tween_targets' = targets
        /\ caches' = IF installed = None THEN cs
                     ELSE [cs EXCEPT ![installed] =
                              prepare_cache(cs[installed], targets, keyValue)]
        /\ UNCHANGED keyValue
        /\ HostRegister(cmd)
        /\ gesture' = "open"
        /\ nCmds' = nCmds + 1
        /\ lastOp' = Op(pa, c, Cardinality(targets), prepare_result(targets))
        /\ prevFailedPress' = FailedPress(lastOp)
        /\ pressVals' = keyValue
        /\ sessionWrites' = {}

\* doIt, the other branch: the cache stored at module level, then interpolate
DoItDrag(args) ==
    LET pa == pass_args(args)
        c == drag_cache
        cmd == [anim_cache |-> c, press_arg |-> pa.press_arg]
        cs == CachesWith(c)
        cur == tween_anim_cache
    IN  /\ nCmds < MaxCmds
        /\ pa.numberOfFlagsUsed # 0
        /\ ~takes_press_branch(pa.press_arg)
        /\ keyValue' = interpolate_keys(tween_targets, keyValue, pa.blend_arg)
        /\ caches' = IF cur = None THEN cs
                     ELSE [cs EXCEPT ![cur] =
                              interpolate_cache(cs[cur], tween_targets,
                                                keyValue, pa.blend_arg)]
        /\ HostRegister(cmd)
        /\ nCmds' = nCmds + 1
        /\ lastOp' = Op(pa, c, Cardinality(tween_targets), "ok")
        /\ prevFailedPress' = FailedPress(lastOp)
        /\ sessionWrites' = sessionWrites
                            \cup { << tg.curve, tg.index >> : tg \in tween_targets }
        /\ UNCHANGED << tween_anim_cache, tween_targets, gesture, pressVals >>

DoIt(args) ==
    \/ DoItShow(args)
    \/ \E sl_list \in Selections : DoItPress(args, sl_list)
    \/ DoItDrag(args)

HostOp(name, cache, result) ==
    [name |-> name, cache |-> cache, ncurves |-> 0, result |-> result]

\* a mutation: undoIt forwards to the cache's redoIt
undoIt_redoes(cmd, keys) == MAnimCurveChange_redoIt(caches[cmd.anim_cache], keys)

\* undoIt: self.anim_cache.undoIt()
undoIt(cmd, keys) == MAnimCurveChange_undoIt(caches[cmd.anim_cache], keys)

\* redoIt: self.anim_cache.redoIt()
redoIt(cmd, keys) == MAnimCurveChange_redoIt(caches[cmd.anim_cache], keys)

\* the host undoes the newest command of its undo queue
HostUndo ==
    /\ undoStack # << >>
    /\ LET cmd == undoStack[Len(undoStack)]
       IN  IF cmd.anim_cache = None
           THEN \* None has no undoIt: AttributeError; whether the host
                \* then keeps the entry or moves it is the host's choice
                /\ lastOp' = HostOp("undo", None, "AttributeError")
                /\ UNCHANGED keyValue
                /\ \/ UNCHANGED << undoStack, redoStack >>
                   \/ /\ undoStack' = SubSeq(undoStack, 1, Len(undoStack) - 1)
                      /\ redoStack' = Append(redoStack, cmd)
           ELSE /\ keyValue' = undoIt(cmd, keyValue)
                /\ lastOp' = HostOp("undo", cmd.anim_cache, "ok")
                /\ undoStack' = SubSeq(undoStack, 1, Len(undoStack) - 1)
                /\ redoStack' = Append(redoStack, cmd)
    /\ prevFailedPress' = FailedPress(lastOp)
    /\ UNCHANGED << tween_anim_cache, tween_targets, caches, gesture, nCmds,
                    pressVals, sessionWrites >>

\* the host redoes the newest undone command
HostRedo ==
    /\ redoStack # << >>
    /\ LET cmd == redoStack[Len(redoStack)]
       IN  IF cmd.anim_cache = None
           THEN /\ lastOp' = HostOp("redo", None, "AttributeError")
                /\ UNCHANGED keyValue
                /\ \/ UNCHANGED << undoStack, redoStack >>
                   \/ /\ redoStack' = SubSeq(redoStack, 1, Len(redoStack) - 1)
                      /\ undoStack' = Append(undoStack, cmd)
           ELSE /\ keyValue' = redoIt(cmd, keyValue)
                /\ lastOp' = HostOp("redo", cmd.anim_cache, "ok")
                /\ redoStack' = SubSeq(redoStack, 1, Len(redoStack) - 1)
                /\ undoStack' = Append(undoStack, cmd)
    /\ prevFailedPress' = FailedPress(lastOp)
    /\ UNCHANGED << tween_anim_cache, tween_targets, caches, gesture, nCmds,
                    pressVals, sessionWrites >>

\* the gesture ends (the slider is released): no flag of the command and no
\* code of doIt stands for it, so the command's state is left as it is
Release ==
    /\ gesture = "open"
    /\ gesture' = "ended"
    /\ lastOp' = HostOp("release", None, "ok")
    /\ prevFailedPress' = FailedPress(lastOp)
    /\ UNCHANGED << keyValue, tween_anim_cache, tween_targets, caches,
                    undoStack, redoStack, nCmds, pressVals, sessionWrites >>

BzIdle == [pc |-> "off"]
SlIdle == [pc |-> "off"]

InitSession ==
    /\ keyValue = InitKeyValue
    /\ tween_anim_cache = None
    /\ tween_targets = {}
    /\ caches = << >>
    /\ undoStack = << >>
    /\ redoStack = << >>
    /\ gesture = "none"
    /\ nCmds = 0
    /\ lastOp = HostOp("init", None, "ok")
    /\ prevFailedPress = FALSE
    /\ pressVals = InitKeyValue
    /\ sessionWrites = {}

Init == InitSession /\ bz = BzIdle /\ sl = SlIdle

Next ==
    \/ \E args \in ArgLists : DoIt(args) /\ UNCHANGED << bz, sl >>
    \/ HostUndo /\ UNCHANGED << bz, sl >>
    \/ HostRedo /\ UNCHANGED << bz, sl >>
    \/ Release /\ UNCHANGED << bz, sl >>

Spec == Init /\ [][Next]_vars

-----------------------------------------------------------------------------
(* Calls of get_curve_tangents_bezier_points *)

MaxKeys == 3        \* keys on a curve

TimeUnits == { "kFilm", "kNTSCFrame", "kSeconds" }

\* what one key may look like, apart from its time
KeyShapes ==
    { [value |-> -1, tangentOut |-> << 1, 0 >>,  tangentIn |-> << 2, 1 >>],
      [value |-> 2,  tangentOut |-> << 3, -2 >>, tangentIn |-> << 1, 1 >>],
      [value |-> 7,  tangentOut |-> << 6, 3 >>,  tangentIn |-> << 6, 3 >>] }

\* key k sits at frame 12 k - 6: times strictly increase along the curve
BzKey(k, unit, form) ==
    [time |-> [value |-> 12 * k - 6, unit |-> unit], value |-> form.value,
     tangentOut |-> form.tangentOut, tangentIn |-> form.tangentIn]

BzCurves ==
    UNION { { [keys |-> [k \in 1..n |-> BzKey(k, u, f[k])]] :
                 f \in [1..n -> KeyShapes] } :
            n \in 0..MaxKeys, u \in TimeUnits }

InitBezier ==
    /\ InitSession
    /\ sl = SlIdle
    /\ \E c \in BzCurves :
       \E s \in -1..Len(c.keys), e \in -1..Len(c.keys) :
          bz = [pc |-> "call", curve_fn |-> c, start_index |-> s,
                end_index |-> e, result |-> [ok |-> FALSE, error |-> ""]]

BezierCall ==
    /\ bz.pc = "call"
    /\ bz' = [bz EXCEPT !.pc = "done",
                        !.result = get_curve_tangents_bezier_points(
                                       bz.curve_fn, bz.start_index, bz.end_index)]
    /\ UNCHANGED sessionVars
    /\ UNCHANGED sl

NextBezier == BezierCall

SpecBezier == InitBezier /\ [][NextBezier]_vars

-----------------------------------------------------------------------------
(* Calls of the selection resolvers *)

MaxSelLen == 2      \* items of the active selection list

ConnKinds ==
    { "kAnimCurveTimeToDistance", "kAnimCurveTimeToAngular",
      "kAnimCurveUnitlessToDistance", "kExpression" }

\* what may feed attribute `short` of node `n`: nothing, or one node
ConnChoices(n, short) ==
    { << >> } \cup { << [name |-> << n, short >>, apiType |-> k] >> : k \in ConnKinds }

SlNodes(n) ==
    { [name |-> n,
       attrs |-> << [shortName |-> "tx", connections |-> c1],
                    [shortName |-> "ry", connections |-> c2] >>] :
        c1 \in ConnChoices(n, "tx"), c2 \in ConnChoices(n, "ry") }

SecondNode ==
    [name |-> "n2",
     attrs |-> << [shortName |-> "tx",
                   connections |-> << [name |-> << "n2", "tx" >>,
                                       apiType |-> "kAnimCurveTimeToTime"] >>],
                  [shortName |-> "v",
                   connections |-> << [name |-> << "n2", "v" >>,
                                       apiType |-> "kAnimCurveUnitlessToUnitless"] >>] >>]

NodeLists ==
    { << >> } \cup { << n >> : n \in SlNodes("n1") }
              \cup { << n, SecondNode >> : n \in SlNodes("n1") }

ChannelBoxes ==
    [s1 : { << >>, << "tx" >>, << "tx", "ry" >>, << "v" >> },
     s2 : { << >> },
     s3 : { << >>, << "ry" >> },
     s4 : { << >> }]

\* the nodes that feed the first node's attributes, as selection items
SlItems(nodes) ==
    IF nodes = << >> THEN {}
    ELSE { [itemType |-> ty, node |-> nodes[1].attrs[a].connections[1]] :
             ty \in { "kAnimSelectionItem", "kPlugSelectionItem" },
             a \in { a \in DOMAIN nodes[1].attrs :
                       nodes[1].attrs[a].connections # << >> } }

InitSel ==
    /\ InitSession
    /\ bz = BzIdle
    /\ \E nodes \in NodeLists, cb \in ChannelBoxes :
       \E n \in 0..MaxSelLen :
       \E sl_list \in [1..n -> SlItems(nodes)] :
          sl = [pc |-> "on", nodes |-> nodes, cb |-> cb, sl_list |-> sl_list,
                doneObjects |-> FALSE, fromObjects |-> << >>,
                doneSelected |-> FALSE, selected |-> {}]

CallFromObjects ==
    /\ sl.pc = "on"
    /\ ~sl.doneObjects
    /\ sl' = [sl EXCEPT !.doneObjects = TRUE,
                        !.fromObjects =
                            get_anim_curves_from_objects(sl.nodes, sl.cb)]
    /\ UNCHANGED sessionVars
    /\ UNCHANGED bz

CallSelected ==
    /\ sl.pc = "on"
    /\ ~sl.doneSelected
    /\ sl' = [sl EXCEPT !.doneSelected = TRUE,
                        !.selected = get_selected_anim_curves(sl.sl_list)]
    /\ UNCHANGED sessionVars
    /\ UNCHANGED bz

NextSel == CallFromObjects \/ CallSelected

SpecSel == InitSel /\ [][NextSel]_vars

-----------------------------------------------------------------------------
(* Properties of the command and its undo entries *)

IsInvocation == nCmds' = nCmds + 1

KeysOf(cache) == { << cache[i].curve, cache[i].index >> : i \in DOMAIN cache }

TargetKeys == { << tg.curve, tg.index >> : tg \in tween_targets }

\* C1: a session of one press and N >= 0 drags, then undo of a command that
\* holds the session's cache: every key the session wrote is back at the
\* value it had just before the press, and every other key is left as it
\* was.
C1_UndoRestoresSession ==
    [][ ( /\ lastOp'.name = "undo"
          /\ lastOp'.result = "ok"
          /\ lastOp'.cache = tween_anim_cache )
        => \A c \in CurveNames : \A i \in DOMAIN keyValue[c] :
              keyValue'[c][i] = IF << c, i >> \in sessionWrites
                                THEN pressVals[c][i]
                                ELSE keyValue[c][i] ]_vars

\* a press on two curves, drags that changed both keys, then the undo
C1_Witness ==
    /\ lastOp.name = "undo"
    /\ lastOp.result = "ok"
    /\ lastOp.cache = tween_anim_cache
    /\ Len(redoStack) = 1
    /\ Cardinality(sessionWrites) = 2
    /\ \A i \in DOMAIN caches[lastOp.cache] :
          LET e == caches[lastOp.cache][i]
          IN  e.last # e.orig /\ keyValue[e.curve][e.index] = e.orig

\* C2 as stated: a session adds one entry to the undo queue, so no two
\* entries of the queue hold the same cache.
C2_OneUndoEntryPerSession ==
    \A c \in DOMAIN caches :
        Cardinality({ i \in DOMAIN undoStack : undoStack[i].anim_cache = c }) <= 1

\* C2 amended: a press creates exactly one cache and a drag none, and every
\* invocation adds one entry of its own to the undo queue; the entry of a
\* press or a drag holds the session's cache.
C2_OneEntryPerInvocation ==
    [][ IsInvocation
        => /\ Len(undoStack') = Len(undoStack) + 1
           /\ Len(caches') = Len(caches)
                             + (IF lastOp'.name = "press" THEN 1 ELSE 0)
           /\ undoStack'[Len(undoStack')].anim_cache = lastOp'.cache
           /\ (lastOp'.name # "show" => lastOp'.cache = tween_anim_cache') ]_vars

\* a press and two drags: three queue entries, one cache
C2_Witness ==
    /\ Len(undoStack) = 3
    /\ Len(caches) = 1
    /\ \A i \in DOMAIN undoStack : undoStack[i].anim_cache = 1
    /\ lastOp.name = "drag"

C4_OneEntryPerKey ==
    tween_anim_cache # None
    => LET cache == caches[tween_anim_cache]
       IN  /\ \A i, j \in DOMAIN cache :
                  (cache[i].curve = cache[j].curve
                   /\ cache[i].index = cache[j].index) => i = j
           /\ \A i \in DOMAIN cache :
                  cache[i].orig = pressVals[cache[i].curve][cache[i].index]
           /\ KeysOf(cache) = TargetKeys
           /\ sessionWrites \subseteq KeysOf(cache)

\* one press on two curves, two drags, release; both keys were changed
C4_Witness ==
    /\ gesture = "ended"
    /\ tween_anim_cache = 1
    /\ Len(undoStack) = 3
    /\ \A i \in DOMAIN undoStack : undoStack[i].anim_cache = 1
    /\ Cardinality(sessionWrites) = 2
    /\ \A i \in DOMAIN caches[1] : caches[1][i].last # caches[1][i].orig

\* C5 as stated: a press that resolves to no tweenable curve leaves no
\* current cache installed for later drags.
C5_FailedPressInstallsNothing ==
    FailedPress(lastOp) => tween_anim_cache = None

\* C5 amended: a press that resolves to no tweenable curve yields
\* NoTweenableKeys and writes nothing, but its new, empty cache is installed
\* as the current one; a press that resolves to curves succeeds whatever
\* came before it.
C5_FailedPressInstallsEmptyCache ==
    /\ FailedPress(lastOp)
          => /\ lastOp.ncurves = 0
             /\ tween_anim_cache = lastOp.cache
             /\ lastOp.cache = Len(caches)
             /\ caches[lastOp.cache] = << >>
             /\ tween_targets = {}
             /\ keyValue = pressVals
    /\ (lastOp.name = "press" /\ ~FailedPress(lastOp))
          => /\ lastOp.ncurves > 0
             /\ tween_anim_cache = lastOp.cache
             /\ Cardinality(tween_targets) = lastOp.ncurves
             /\ KeysOf(caches[lastOp.cache]) = TargetKeys

\* a press on curves right after a press that found none
C5_Witness ==
    /\ lastOp.name = "press"
    /\ lastOp.result = "ok"
    /\ prevFailedPress
    /\ tween_anim_cache = 2
    /\ caches[1] = << >>

\* C9: a press installs a cache made for it and touches no older cache; a
\* drag makes no cache, holds the current one, which is the newest, and
\* changes no other.
C9_PressInstallsDragReuses ==
    [][ IsInvocation
        => /\ lastOp'.name = "press"
                => /\ Len(caches') = Len(caches) + 1
                   /\ tween_anim_cache' = Len(caches')
                   /\ lastOp'.cache = tween_anim_cache'
                   /\ \A c \in DOMAIN caches : caches'[c] = caches[c]
           /\ lastOp'.name = "drag"
                => /\ Len(caches') = Len(caches)
                   /\ tween_anim_cache' = tween_anim_cache
                   /\ tween_anim_cache = Len(caches)
                   /\ lastOp'.cache = tween_anim_cache
                   /\ \A c \in DOMAIN caches :
                         c # tween_anim_cache => caches'[c] = caches[c] ]_vars

\* two presses on the same curve, then a drag: only the second cache saw
\* the write
C9_Witness ==
    /\ lastOp.name = "drag"
    /\ Len(caches) = 2
    /\ tween_anim_cache = 2
    /\ caches[1] # << >>
    /\ KeysOf(caches[1]) = KeysOf(caches[2])
    /\ \A i \in DOMAIN caches[1] : caches[1][i].last = caches[1][i].orig
    /\ \E i \in DOMAIN caches[2] : caches[2][i].last # caches[2][i].orig

\* C10: every command instance on the host's undo or redo queue holds a
\* cache, so undoIt and redoIt never meet anim_cache = None.
C10_UndoableHoldsCache ==
    /\ \A i \in DOMAIN undoStack : undoStack[i].anim_cache # None
    /\ \A i \in DOMAIN redoStack : redoStack[i].anim_cache # None
    /\ lastOp.result # "AttributeError"

-----------------------------------------------------------------------------
(* Properties of get_curve_tangents_bezier_points *)

\* fraction a is the whole number n
IsInt(a, n) == a[1] = n * a[2]

\* fraction a minus fraction b is one third of the whole number t
ThirdApart(a, b, t) == 3 * (a[1] * b[2] - b[1] * a[2]) = t * a[2] * b[2]

BzStart == KeyAt(bz.curve_fn, bz.start_index)
BzEnd == KeyAt(bz.curve_fn, bz.end_index)

BzValidPair ==
    /\ ValidIndex(bz.curve_fn, bz.start_index)
    /\ ValidIndex(bz.curve_fn, bz.end_index)

\* C6: for end = start + 1, p1 and p4 are the two keys' (time in seconds,
\* value), p2 is p1 plus a third of the start key's out-tangent and p3 is p4
\* minus a third of the end key's in-tangent, in each coordinate.
C6_BezierPoints ==
    (bz.pc = "done" /\ BzValidPair /\ bz.end_index = bz.start_index + 1)
    => LET r == bz.result
       IN  /\ r.ok
           /\ IsInt(<< r.p1.x[1] * PerSecond(BzStart.time.unit), r.p1.x[2] >>,
                    BzStart.time.value)
           /\ IsInt(r.p1.y, BzStart.value)
           /\ IsInt(<< r.p4.x[1] * PerSecond(BzEnd.time.unit), r.p4.x[2] >>,
                    BzEnd.time.value)
           /\ IsInt(r.p4.y, BzEnd.value)
           /\ ThirdApart(r.p2.x, r.p1.x, BzStart.tangentOut[1])
           /\ ThirdApart(r.p2.y, r.p1.y, BzStart.tangentOut[2])
           /\ ThirdApart(r.p4.x, r.p3.x, BzEnd.tangentIn[1])
           /\ ThirdApart(r.p4.y, r.p3.y, BzEnd.tangentIn[2])

\* the segment between the second and third key of a curve whose keys carry
\* different in- and out-tangents and a time that is no whole second
C6_Witness ==
    /\ bz.pc = "done"
    /\ bz.result.ok
    /\ bz.start_index = 1
    /\ bz.end_index = 2
    /\ BzStart.tangentOut # BzStart.tangentIn
    /\ BzEnd.tangentOut # BzEnd.tangentIn
    /\ bz.result.p1.x[2] # 1
    /\ bz.result.p2.y[2] = 3

\* C7 as stated: start >= end, an index that is no key's, or two keys that
\* are not adjacent make the builder fail with InvalidRange.
C7_InvalidRange ==
    (bz.pc = "done"
     /\ ~(BzValidPair /\ bz.end_index = bz.start_index + 1))
    => (~bz.result.ok /\ bz.result.error = "InvalidRange")

\* C7 amended: the builder tests neither order nor adjacency: for any two
\* indices that are keys of the curve it returns four control points, p1 at
\* the start key and p4 at the end key, and it never fails with InvalidRange.
C7_NoRangeCheck ==
    bz.pc = "done"
    => /\ BzValidPair
          => /\ bz.result.ok
             /\ IsInt(bz.result.p1.y, BzStart.value)
             /\ IsInt(bz.result.p4.y, BzEnd.value)
       /\ ~bz.result.ok => (~BzValidPair /\ bz.result.error # "InvalidRange")

\* a call from the last key back to the first of a three-key curve
C7_Witness ==
    /\ bz.pc = "done"
    /\ Len(bz.curve_fn.keys) = 3
    /\ bz.start_index = 2
    /\ bz.end_index = 0
    /\ bz.result.ok
    /\ bz.result.p1.y # bz.result.p4.y

-----------------------------------------------------------------------------
(* Properties of the selection resolvers *)

\* the short names the channel box restricts to; empty when none is selected
Restricted ==
    SeqToSet(sl.cb.s1) \cup SeqToSet(sl.cb.s2)
    \cup SeqToSet(sl.cb.s3) \cup SeqToSet(sl.cb.s4)

\* curve feeds an attribute of the scene whose short name is in names
DrivesOneOf(curve, names) ==
    \E i \in DOMAIN sl.nodes : \E a \in DOMAIN sl.nodes[i].attrs :
        LET attr == sl.nodes[i].attrs[a]
        IN  /\ attr.connections # << >>
            /\ attr.connections[1] = curve
            /\ attr.shortName \in names

EligibleKinds ==
    { "kAnimCurveTimeToAngular", "kAnimCurveTimeToDistance",
      "kAnimCurveTimeToUnitless", "kAnimCurveTimeToTime" }

\* C8 as stated: both resolvers return only curves of the four eligible
\* kinds, and under a channel-box restriction only curves that drive a
\* restricted attribute.
C8_BothResolversRestricted ==
    /\ sl.pc = "on" /\ sl.doneObjects
          => \A c \in SeqToSet(sl.fromObjects) :
                /\ c.apiType \in EligibleKinds
                /\ Restricted # {} => DrivesOneOf(c, Restricted)
    /\ sl.pc = "on" /\ sl.doneSelected
          => \A c \in sl.selected :
                /\ c.apiType \in EligibleKinds
                /\ Restricted # {} => DrivesOneOf(c, Restricted)

\* C8 amended: both resolvers return only curves of the four eligible kinds;
\* the channel-box restriction is applied by get_anim_curves_from_objects
\* alone, get_selected_anim_curves does not read the channel box.
C8_KindsBothChannelBoxObjects ==
    /\ sl.pc = "on" /\ sl.doneObjects
          => \A c \in SeqToSet(sl.fromObjects) :
                /\ c.apiType \in EligibleKinds
                /\ Restricted # {} => DrivesOneOf(c, Restricted)
    /\ sl.pc = "on" /\ sl.doneSelected
          => \A c \in sl.selected : c.apiType \in EligibleKinds

\* a restriction to tx; the first node's tx and ry are both fed by eligible
\* curves and both curves are selected: the object resolver returns the tx
\* curves of the two nodes only, the resolver of selected curves returns
\* both selected curves
C8_Witness ==
    /\ sl.pc = "on" /\ sl.doneObjects /\ sl.doneSelected
    /\ Restricted = { "tx" }
    /\ Len(sl.nodes) = 2
    /\ \A a \in 1..2 :
          /\ sl.nodes[1].attrs[a].connections # << >>
          /\ sl.nodes[1].attrs[a].connections[1].apiType \in EligibleKinds
    /\ Len(sl.fromObjects) = 2
    /\ Cardinality(sl.selected) = 2
    /\ \E c \in sl.selected : ~DrivesOneOf(c, Restricted)

=============================================================================
